---- MODULE Spec2Model ----
(***************************************************************************)
(* TodoList: the task persistence and in-memory synchronisation logic of   *)
(* src/src/main.cpp (Direct3D12 front end) and of the GLFW front end kept  *)
(* in src/build/build.sh, the last of which ("glfw_dialog") sets up the    *)
(* schema once before the loop and owns the warning dialog.                *)
(*                                                                         *)
(* The table `tasks` of todo_list.db is the sequence db (rowid order);     *)
(* the two global vectors are tasks and finished_tasks.  One action is one *)
(* rendered frame of the main loop in which the user triggers one widget:  *)
(* the frame first runs create_database_and_table and then the handler.    *)
(* A text is a sequence of one-character strings.  The check box that      *)
(* shows or hides the finished list is rendering state and is left out:    *)
(* the "clear" button is taken to be visible.  The time_added column of    *)
(* the GLFW front ends is modelled apart, at the end of the program part,  *)
(* with its own specification that adds a task and starts the program      *)
(* again.                                                                  *)
(***************************************************************************)
EXTENDS Integers, Sequences, FiniteSets, TLC

VARIABLES variant, pc, tasks, finished_tasks, db, table_exists,
          task_input, store_failed, last_op, should_show_warning_dialog,
          schema_ran, connection_left_open

vars == <<variant, pc, tasks, finished_tasks, db, table_exists,
          task_input, store_failed, last_op, should_show_warning_dialog,
          schema_ran, connection_left_open>>

(***************************************************************************)
(* Bounds of the model.                                                    *)
(***************************************************************************)
MaxTasks == 2
MaxRows == 2
\* The scenario table holds one row more, and so does its active list.
ScenarioRows == 3
ScenarioTasks == 3
\* Widths of std::time_t and of int, scaled down from 64 and 32 bits.
TimeBits == 5
ColumnIntBits == 3

(***************************************************************************)
(* The two front ends that differ in delete_tasks, and the front end with  *)
(* the warning dialog.                                                     *)
(***************************************************************************)
Variants == {"d3d12", "glfw"}
DialogVariants == {"glfw_dialog"}

(***************************************************************************)
(* Texts the user can type into task_input (char[256], so any text of at   *)
(* most 255 bytes): the empty text, a plain name, a text with a single     *)
(* quote, and a text that closes the SQL literal and the statement itself. *)
(* TextWipe closes them and goes on with a second statement; TextC is the  *)
(* plain name that the worked scenario adds.                               *)
(***************************************************************************)
TextA == <<"a">>
TextB == <<"b">>
TextQuote == <<"a", "'">>
TextInject == <<"'", ",", "1", ")", ";", "-", "-">>
TextWipe == <<"'", ",", "0", ")", ";", "D", "E", "L", "E", "T", "E", " ",
              "F", "R", "O", "M", " ", "t", "a", "s", "k", "s", ";", "-", "-">>
TextC == <<"c">>
TextInputs == {<<>>, TextA, TextQuote, TextInject}
\* The same with a text that carries a second SQL statement.
ScriptInputs == TextInputs \cup {TextWipe}
ScenarioInputs == {<<>>, TextC}

Task(n, finished) == [name |-> n, is_finished |-> finished]
Row(n, f) == [task_name |-> n, task_finished |-> f]

(***************************************************************************)
(* Tables todo_list.db can hold when the program starts.  On the first run *)
(* there is no table yet (table_exists = FALSE in Init).                   *)
(***************************************************************************)
InitialTables ==
    { <<>>,
      <<Row(TextA, 0)>>,
      <<Row(TextA, 1)>>,
      <<Row(TextA, 0), Row(TextB, 0)>>,
      <<Row(TextA, 0), Row(TextB, 1)>> }

\* The stored rows the worked scenario starts from.
ScenarioTable == <<Row(TextA, 0), Row(TextB, 1)>>

(***************************************************************************)
(* SQL text handling of sqlite3_exec for the INSERT that add_task builds   *)
(* by concatenation.  Only the part after "VALUES (" is kept.              *)
(***************************************************************************)
CharAt(s, p) == IF p \in 1..Len(s) THEN s[p] ELSE "EOF"

InsertValues(task) == <<"'">> \o task \o <<"'", ",", " ", "0", ")", ";">>

RECURSIVE ScanString(_, _, _)
\* A string literal whose opening quote is before position p: '' is an
\* escaped quote, a single ' closes the literal.
ScanString(s, p, acc) ==
    IF p > Len(s) THEN [closed |-> FALSE, next |-> p, text |-> acc]
    ELSE IF s[p] = "'"
         THEN IF CharAt(s, p + 1) = "'"
              THEN ScanString(s, p + 2, Append(acc, "'"))
              ELSE [closed |-> TRUE, next |-> p + 1, text |-> acc]
         ELSE ScanString(s, p + 1, Append(acc, s[p]))

RECURSIVE SkipSpaces(_, _)
SkipSpaces(s, p) == IF CharAt(s, p) = " " THEN SkipSpaces(s, p + 1) ELSE p

IsDigit(c) == c \in {"0", "1"}
DigitValue(c) == IF c = "1" THEN 1 ELSE 0

RECURSIVE ScanInteger(_, _, _)
ScanInteger(s, p, acc) ==
    IF IsDigit(CharAt(s, p))
    THEN ScanInteger(s, p + 1, 10 * acc + DigitValue(s[p]))
    ELSE [next |-> p, value |-> acc]

\* The end of the text, or a "--" comment that runs to the end of the text.
TailOk(s, p) ==
    LET q == SkipSpaces(s, p)
    IN  \/ q > Len(s)
        \/ CharAt(s, q) = "-" /\ CharAt(s, q + 1) = "-"

DeleteAll ==
    <<"D", "E", "L", "E", "T", "E", " ", "F", "R", "O", "M", " ",
      "t", "a", "s", "k", "s">>

StartsWith(s, p, w) ==
    /\ p + Len(w) - 1 <= Len(s)
    /\ SubSeq(s, p, p + Len(w) - 1) = w

\* What follows the first statement.  sqlite3_exec compiles and runs the
\* statements of its text one after another: nothing or a comment ends the
\* text; "DELETE FROM tasks" runs and removes every row; any other text is
\* a statement that fails to compile.
ExecTail(s, p) ==
    LET q    == SkipSpaces(s, p)
        stop == SkipSpaces(s, q + Len(DeleteAll))
    IN  IF TailOk(s, q) THEN [wipe |-> FALSE, ok |-> TRUE]
        ELSE IF ~StartsWith(s, q, DeleteAll) THEN [wipe |-> FALSE, ok |-> FALSE]
        ELSE IF CharAt(s, stop) = ";" THEN [wipe |-> TRUE, ok |-> TailOk(s, stop + 1)]
        ELSE IF TailOk(s, stop) THEN [wipe |-> TRUE, ok |-> TRUE]
        ELSE [wipe |-> FALSE, ok |-> FALSE]

\* The outcome of sqlite3_exec on the INSERT: the rows the first statement
\* appends, whether a later statement of the text then removes every row,
\* and whether the call returns SQLITE_OK.  The first statement runs before
\* the rest of the text is compiled.
ExecInsert(s) ==
    LET lit   == ScanString(s, 2, <<>>)
        comma == SkipSpaces(s, lit.next)
        num   == ScanInteger(s, SkipSpaces(s, comma + 1), 0)
        close == SkipSpaces(s, num.next)
        semi  == SkipSpaces(s, close + 1)
        tail  == ExecTail(s, semi + 1)
        fail  == [rows |-> <<>>, wipe |-> FALSE, ok |-> FALSE]
    IN  IF ~lit.closed THEN fail
        ELSE IF CharAt(s, comma) # "," THEN fail
        ELSE IF ~IsDigit(CharAt(s, SkipSpaces(s, comma + 1))) THEN fail
        ELSE IF CharAt(s, close) # ")" THEN fail
        ELSE IF CharAt(s, semi) # ";" THEN fail
        ELSE [rows |-> <<Row(lit.text, num.value)>>, wipe |-> tail.wipe,
              ok |-> tail.ok]


(***************************************************************************)
(* Persistence gateway.  Every call opens todo_list.db itself; open_ok is  *)
(* the outcome of that sqlite3_open.  A statement on the table fails to    *)
(* compile while the table does not exist.  store_failed records that a    *)
(* call reading or writing the rows has returned a failure.  The per-frame *)
(* create_database_and_table changes nothing once the table exists, so its *)
(* open outcome is drawn only while the table is missing.  schema_ran      *)
(* records that create_database_and_table has been called, and             *)
(* connection_left_open that a call has returned without sqlite3_close on  *)
(* the connection it had opened.                                           *)
(***************************************************************************)

\* A variant that never creates the table.
create_database_and_table_absent(open_ok, exists) == exists

\* The table exists afterwards when the store could be opened.
create_database_and_table(open_ok, exists) == open_ok \/ exists

\* A variant that raises the flag on either failure.
create_database_and_table_flag_any(open_ok, prepare_ok, exists, flag) ==
    [exists |-> exists \/ (open_ok /\ prepare_ok),
     flag   |-> IF open_ok /\ prepare_ok THEN flag ELSE TRUE,
     leaked |-> open_ok /\ ~prepare_ok]

\* create_database_and_table(bool &should_show_warning_dialog) of the
\* dialog front end: the flag is raised when sqlite3_open fails and is left
\* alone when the CREATE TABLE statement cannot be prepared.
create_database_and_table_flag(open_ok, prepare_ok, exists, flag) ==
    [exists |-> exists \/ (open_ok /\ prepare_ok),
     flag   |-> IF open_ok THEN flag ELSE TRUE,
     leaked |-> open_ok /\ ~prepare_ok]

\* The dialog front end calls it once before the loop, the other two at the
\* start of every frame.
SchemaOpens(v, exists) ==
    IF exists \/ v \in DialogVariants THEN {TRUE} ELSE BOOLEAN

FrameSchema(v, open_ok, exists) ==
    IF v \in DialogVariants THEN exists
    ELSE create_database_and_table(open_ok, exists)

FrameSchemaRan(v, ran) == ran \/ v \notin DialogVariants

\* A variant that keeps the task only when the INSERT has succeeded.
add_task_checked(task, open_ok, ts, rows, exists) ==
    IF task = <<>>
    THEN [tasks |-> ts, db |-> rows, failed |-> FALSE]
    ELSE LET exec == ExecInsert(InsertValues(task))
         IN  IF open_ok /\ exists /\ exec.ok
             THEN [tasks |-> Append(ts, Task(task, FALSE)),
                   db |-> IF exec.wipe THEN <<>> ELSE rows \o exec.rows,
                   failed |-> FALSE]
             ELSE [tasks |-> ts, db |-> rows, failed |-> TRUE]

\* A variant that puts the new task in front.
add_task_front(task, open_ok, ts, rows, exists) ==
    IF task = <<>>
    THEN [tasks |-> ts, db |-> rows, failed |-> FALSE]
    ELSE LET pushed == <<Task(task, FALSE)>> \o ts
             exec   == ExecInsert(InsertValues(task))
         IN  IF open_ok /\ exists
             THEN [tasks |-> pushed,
                   db |-> IF exec.wipe THEN <<>> ELSE rows \o exec.rows,
                   failed |-> ~exec.ok]
             ELSE [tasks |-> pushed, db |-> rows, failed |-> TRUE]

add_task(task, open_ok, ts, rows, exists) ==
    IF task = <<>>
    THEN [tasks |-> ts, db |-> rows, failed |-> FALSE]
    ELSE LET pushed == Append(ts, Task(task, FALSE))
             exec   == ExecInsert(InsertValues(task))
         IN  IF open_ok /\ exists
             THEN [tasks |-> pushed,
                   db |-> IF exec.wipe THEN <<>> ELSE rows \o exec.rows,
                   failed |-> ~exec.ok]
             ELSE [tasks |-> pushed, db |-> rows, failed |-> TRUE]

IsActiveRow(r) == r.task_finished = 0
IsFinishedRow(r) == r.task_finished = 1

RowsToTasks(rows) ==
    [i \in DOMAIN rows |-> Task(rows[i].task_name, rows[i].task_finished # 0)]

\* A variant that does not clear the vector first.
load_tasks_from_database_append(open_ok, ts, rows, exists) ==
    IF open_ok /\ exists
    THEN [tasks |-> ts \o RowsToTasks(SelectSeq(rows, IsActiveRow)),
          failed |-> FALSE, leaked |-> FALSE]
    ELSE [tasks |-> ts, failed |-> TRUE, leaked |-> open_ok]

\* The return after a failed prepare skips sqlite3_close.
load_tasks_from_database(open_ok, ts, rows, exists) ==
    IF open_ok /\ exists
    THEN [tasks |-> RowsToTasks(SelectSeq(rows, IsActiveRow)),
          failed |-> FALSE, leaked |-> FALSE]
    ELSE [tasks |-> ts, failed |-> TRUE, leaked |-> open_ok]

\* A variant whose SELECT has no WHERE clause.
get_finished_tasks_unfiltered(open_ok, rows, exists) ==
    IF open_ok /\ exists
    THEN [tasks |-> RowsToTasks(rows), failed |-> FALSE]
    ELSE [tasks |-> <<>>, failed |-> TRUE]

\* A variant whose SELECT asks for task_finished = 0.
get_finished_tasks_active(open_ok, rows, exists) ==
    IF open_ok /\ exists
    THEN [tasks |-> RowsToTasks(SelectSeq(rows, IsActiveRow)), failed |-> FALSE]
    ELSE [tasks |-> <<>>, failed |-> TRUE]

get_finished_tasks(open_ok, rows, exists) ==
    IF open_ok /\ exists
    THEN [tasks |-> RowsToTasks(SelectSeq(rows, IsFinishedRow)), failed |-> FALSE]
    ELSE [tasks |-> <<>>, failed |-> TRUE]

\* A variant whose UPDATE has no WHERE clause.
UpdateRows_unkeyed(rows, t) ==
    [k \in DOMAIN rows |->
        [rows[k] EXCEPT !.task_finished = IF t.is_finished THEN 1 ELSE 0]]

\* UPDATE tasks SET task_finished = ? WHERE task_name = ?
UpdateRows(rows, t) ==
    [k \in DOMAIN rows |->
        IF rows[k].task_name = t.name
        THEN [rows[k] EXCEPT !.task_finished = IF t.is_finished THEN 1 ELSE 0]
        ELSE rows[k]]

RECURSIVE UpdateLoop(_, _, _)
UpdateLoop(ts, i, rows) ==
    IF i > Len(ts) THEN rows ELSE UpdateLoop(ts, i + 1, UpdateRows(rows, ts[i]))

\* The return after a failed prepare skips sqlite3_close.
update_tasks_in_database(open_ok, ts, rows, exists) ==
    IF ~open_ok THEN [db |-> rows, failed |-> TRUE, leaked |-> FALSE]
    ELSE IF ~exists /\ ts # <<>>
         THEN [db |-> rows, failed |-> TRUE, leaked |-> TRUE]
    ELSE [db |-> UpdateLoop(ts, 1, rows), failed |-> FALSE, leaked |-> FALSE]

\* A variant that never runs the DELETE.
clear_finished_tasks_unstepped(open_ok, step_ok, rows, exists) ==
    [db |-> rows, failed |-> ~(open_ok /\ exists /\ step_ok),
     message |-> open_ok /\ exists]

\* A variant whose DELETE has no WHERE clause.
clear_finished_tasks_all(open_ok, step_ok, rows, exists) ==
    IF open_ok /\ exists /\ step_ok
    THEN [db |-> <<>>, failed |-> FALSE, message |-> TRUE]
    ELSE [db |-> rows, failed |-> TRUE, message |-> open_ok /\ exists]

\* step_ok is the outcome of sqlite3_step on the DELETE; message tells
\* whether "Finished tasks cleared successfully." is written to std::cout.
clear_finished_tasks(open_ok, step_ok, rows, exists) ==
    IF ~(open_ok /\ exists)
    THEN [db |-> rows, failed |-> TRUE, message |-> FALSE]
    ELSE IF ~step_ok
         THEN [db |-> rows, failed |-> TRUE, message |-> TRUE]
    ELSE [db |-> SelectSeq(rows, LAMBDA r : ~IsFinishedRow(r)),
          failed |-> FALSE, message |-> TRUE]

(***************************************************************************)
(* Task-list controller.                                                   *)
(***************************************************************************)
RemoveAt(ts, i) == SubSeq(ts, 1, i - 1) \o SubSeq(ts, i + 1, Len(ts))

\* A variant that stores the flag in every element.
set_finished_all(ts, i, is_checked) ==
    [k \in DOMAIN ts |-> [ts[k] EXCEPT !.is_finished = is_checked]]

\* A variant that inverts the flag whatever the target state is.
set_finished_flip(ts, i, is_checked) ==
    [ts EXCEPT ![i].is_finished = ~ts[i].is_finished]

\* tasks[i].is_finished = is_checked
set_finished(ts, i, is_checked) == [ts EXCEPT ![i].is_finished = is_checked]

RECURSIVE EraseByIndex(_, _)
\* for (i = 0; i < tasks.size(); i++) if (finished) tasks.erase(begin() + i);
EraseByIndex(ts, i) ==
    IF i > Len(ts) THEN ts
    ELSE IF ts[i].is_finished THEN EraseByIndex(RemoveAt(ts, i), i + 1)
    ELSE EraseByIndex(ts, i + 1)

RECURSIVE EraseByIterator(_, _)
\* while (it != end()) if (it->is_finished) it = tasks.erase(it); else ++it;
EraseByIterator(ts, i) ==
    IF i > Len(ts) THEN ts
    ELSE IF ts[i].is_finished THEN EraseByIterator(RemoveAt(ts, i), i)
    ELSE EraseByIterator(ts, i + 1)

EraseFinished(v, ts) ==
    IF v = "d3d12" THEN EraseByIndex(ts, 1) ELSE EraseByIterator(ts, 1)

delete_tasks(v, open_update, open_select, ts, rows, exists) ==
    LET upd == update_tasks_in_database(open_update, ts, rows, exists)
        fin == get_finished_tasks(open_select, upd.db, exists)
    IN  [tasks |-> EraseFinished(v, ts), finished_tasks |-> fin.tasks,
         db |-> upd.db, failed |-> upd.failed \/ fin.failed,
         leaked |-> upd.leaked]

(***************************************************************************)
(* The program.                                                            *)
(***************************************************************************)
InitFor(vs, tables) ==
    /\ variant \in vs
    /\ pc = "start"
    /\ tasks = <<>>
    /\ finished_tasks = <<>>
    /\ table_exists \in BOOLEAN
    /\ db \in (IF table_exists THEN tables ELSE {<<>>})
    /\ task_input = <<>>
    /\ store_failed = FALSE
    /\ last_op = "none"
    /\ should_show_warning_dialog = FALSE
    /\ schema_ran = FALSE
    /\ connection_left_open = FALSE

Init == InitFor(Variants, InitialTables)

\* main before the loop: load_tasks_from_database, then get_finished_tasks;
\* the dialog front end sets up the schema first.
Startup ==
    /\ pc = "start"
    /\ \E o0, p0 \in (IF variant \in DialogVariants THEN BOOLEAN ELSE {TRUE}),
          o1, o2 \in BOOLEAN :
          LET schema == IF variant \in DialogVariants
                        THEN create_database_and_table_flag(
                                 o0, p0, table_exists, should_show_warning_dialog)
                        ELSE [exists |-> table_exists,
                              flag   |-> should_show_warning_dialog,
                              leaked |-> FALSE]
              act == load_tasks_from_database(o1, tasks, db, schema.exists)
              fin == get_finished_tasks(o2, db, schema.exists)
          IN  /\ table_exists' = schema.exists
              /\ should_show_warning_dialog' = schema.flag
              /\ tasks' = act.tasks
              /\ finished_tasks' = fin.tasks
              /\ store_failed' = (act.failed \/ fin.failed)
              /\ connection_left_open' = (schema.leaked \/ act.leaked)
    /\ schema_ran' = (variant \in DialogVariants)
    /\ pc' = "running"
    /\ last_op' = "startup"
    /\ UNCHANGED <<variant, db, task_input>>

\* A frame in which the user edits the input field.
TypeTextFrom(texts) ==
    /\ pc = "running"
    /\ \E o0 \in SchemaOpens(variant, table_exists), t \in texts :
          /\ t # task_input
          /\ table_exists' = FrameSchema(variant, o0, table_exists)
          /\ store_failed' = (store_failed)
          /\ task_input' = t
    /\ last_op' = "input"
    /\ schema_ran' = FrameSchemaRan(variant, schema_ran)
    /\ UNCHANGED <<variant, pc, tasks, finished_tasks, db,
                   should_show_warning_dialog, connection_left_open>>

TypeText == TypeTextFrom(TextInputs)
TypeScript == TypeTextFrom(ScriptInputs)
TypeScenario == TypeTextFrom(ScenarioInputs)

\* A frame in which the check box of task i is clicked (render_task_list):
\* ImGui::Checkbox inverts is_checked, which is then stored.
ToggleTask ==
    /\ pc = "running"
    /\ \E o0 \in SchemaOpens(variant, table_exists), i \in DOMAIN tasks :
          /\ table_exists' = FrameSchema(variant, o0, table_exists)
          /\ store_failed' = (store_failed)
          /\ tasks' = set_finished(tasks, i, ~tasks[i].is_finished)
    /\ last_op' = "toggle"
    /\ schema_ran' = FrameSchemaRan(variant, schema_ran)
    /\ UNCHANGED <<variant, pc, finished_tasks, db, task_input,
                   should_show_warning_dialog, connection_left_open>>

\* A frame in which "delete selected" is pressed.
DeleteSelected ==
    /\ pc = "running"
    /\ \E o0 \in SchemaOpens(variant, table_exists), o1, o2 \in BOOLEAN :
          LET exists == FrameSchema(variant, o0, table_exists)
              r == delete_tasks(variant, o1, o2, tasks, db, exists)
          IN  /\ table_exists' = exists
              /\ tasks' = r.tasks
              /\ finished_tasks' = r.finished_tasks
              /\ db' = r.db
              /\ store_failed' = (store_failed \/ r.failed)
              /\ connection_left_open' = (connection_left_open \/ r.leaked)
    /\ last_op' = "delete_tasks"
    /\ schema_ran' = FrameSchemaRan(variant, schema_ran)
    /\ UNCHANGED <<variant, pc, task_input, should_show_warning_dialog>>

\* A variant of the submit frame that leaves the input buffer as it is.
SubmitWithin_keep(max_tasks, max_rows) ==
    /\ pc = "running"
    /\ Len(task_input) > 0 => Len(tasks) < max_tasks /\ Len(db) < max_rows
    /\ \E o0 \in SchemaOpens(variant, table_exists), o1 \in BOOLEAN :
          LET exists == FrameSchema(variant, o0, table_exists)
              r == add_task(task_input, o1, tasks, db, exists)
          IN  /\ table_exists' = exists
              /\ IF Len(task_input) > 0
                 THEN /\ tasks' = r.tasks
                      /\ db' = r.db
                      /\ store_failed' = (store_failed \/ r.failed)
                      /\ task_input' = task_input
                      /\ last_op' = "add_task"
                 ELSE /\ store_failed' = (store_failed)
                      /\ last_op' = "submit_empty"
                      /\ UNCHANGED <<tasks, db, task_input>>
    /\ schema_ran' = FrameSchemaRan(variant, schema_ran)
    /\ UNCHANGED <<variant, pc, finished_tasks, should_show_warning_dialog,
                   connection_left_open>>

\* A frame in which the add button or Enter is active.
SubmitWithin(max_tasks, max_rows) ==
    /\ pc = "running"
    /\ Len(task_input) > 0 => Len(tasks) < max_tasks /\ Len(db) < max_rows
    /\ \E o0 \in SchemaOpens(variant, table_exists), o1 \in BOOLEAN :
          LET exists == FrameSchema(variant, o0, table_exists)
              r == add_task(task_input, o1, tasks, db, exists)
          IN  /\ table_exists' = exists
              /\ IF Len(task_input) > 0
                 THEN /\ tasks' = r.tasks
                      /\ db' = r.db
                      /\ store_failed' = (store_failed \/ r.failed)
                      /\ task_input' = <<>>
                      /\ last_op' = "add_task"
                 ELSE /\ store_failed' = (store_failed)
                      /\ last_op' = "submit_empty"
                      /\ UNCHANGED <<tasks, db, task_input>>
    /\ schema_ran' = FrameSchemaRan(variant, schema_ran)
    /\ UNCHANGED <<variant, pc, finished_tasks, should_show_warning_dialog,
                   connection_left_open>>

SubmitTask == SubmitWithin(MaxTasks, MaxRows)
SubmitScenario == SubmitWithin(ScenarioTasks, ScenarioRows)

\* A frame in which "clear list" is pressed.
ClearFinished ==
    /\ pc = "running"
    /\ \E o0 \in SchemaOpens(variant, table_exists), o1, s1 \in BOOLEAN :
          LET exists == FrameSchema(variant, o0, table_exists)
              r == clear_finished_tasks(o1, s1, db, exists)
          IN  /\ table_exists' = exists
              /\ finished_tasks' = <<>>
              /\ db' = r.db
              /\ store_failed' = (store_failed \/ r.failed)
    /\ last_op' = "clear_finished_tasks"
    /\ schema_ran' = FrameSchemaRan(variant, schema_ran)
    /\ UNCHANGED <<variant, pc, tasks, task_input, should_show_warning_dialog,
                   connection_left_open>>

\* A variant of the end of main that pushes the flags to the store.
ExitWithWriteBack ==
    /\ pc = "running"
    /\ pc' = "exited"
    /\ last_op' = "exit"
    /\ \E o1 \in BOOLEAN :
          LET r == update_tasks_in_database(o1, tasks, db, table_exists)
          IN  /\ db' = r.db
              /\ store_failed' = (store_failed \/ r.failed)
              /\ connection_left_open' = (connection_left_open \/ r.leaked)
    /\ UNCHANGED <<variant, tasks, finished_tasks, table_exists, task_input,
                   should_show_warning_dialog, schema_ran>>

\* The window is closed: the loop ends and main returns.
Exit ==
    /\ pc = "running"
    /\ pc' = "exited"
    /\ last_op' = "exit"
    /\ UNCHANGED <<variant, tasks, finished_tasks, db, table_exists,
                   task_input, store_failed, should_show_warning_dialog,
                   schema_ran, connection_left_open>>

\* A frame in which the OK button of the warning dialog is pressed.
DismissDialog ==
    /\ pc = "running"
    /\ should_show_warning_dialog
    /\ should_show_warning_dialog' = FALSE
    /\ last_op' = "dismiss"
    /\ UNCHANGED <<variant, pc, tasks, finished_tasks, db, table_exists,
                   task_input, store_failed, schema_ran, connection_left_open>>

Next ==
    \/ Startup
    \/ TypeText
    \/ ToggleTask
    \/ DeleteSelected
    \/ SubmitTask
    \/ ClearFinished
    \/ Exit

Spec == Init /\ [][Next]_vars

(***************************************************************************)
(* The same program with the text that carries a second SQL statement.     *)
(***************************************************************************)
ScriptNext ==
    \/ Startup
    \/ TypeScript
    \/ ToggleTask
    \/ DeleteSelected
    \/ SubmitTask
    \/ ClearFinished
    \/ Exit

ScriptSpec == Init /\ [][ScriptNext]_vars

(***************************************************************************)
(* The program started on the table of the worked scenario.                *)
(***************************************************************************)
ScenarioInit == InitFor(Variants \cup DialogVariants, {ScenarioTable})

ScenarioNext ==
    \/ Startup
    \/ TypeScenario
    \/ ToggleTask
    \/ DeleteSelected
    \/ SubmitScenario
    \/ ClearFinished
    \/ DismissDialog
    \/ Exit

ScenarioSpec == ScenarioInit /\ [][ScenarioNext]_vars

(***************************************************************************)
(* The front end with the warning dialog.                                  *)
(***************************************************************************)
DialogInit == InitFor(DialogVariants, InitialTables)

DialogNext ==
    \/ Startup
    \/ TypeText
    \/ ToggleTask
    \/ DeleteSelected
    \/ SubmitTask
    \/ ClearFinished
    \/ DismissDialog
    \/ Exit

DialogSpec == DialogInit /\ [][DialogNext]_vars

(***************************************************************************)
(* The GLFW front ends keep the time a task was added.  add_task writes    *)
(* std::to_string(time_added) into the INSERT, the column has TEXT         *)
(* affinity, and the two SELECT loops read it with sqlite3_column_int.     *)
(* Here tasks and rows carry the extra field; the process can be started   *)
(* again on the file a previous run has left.                              *)
(***************************************************************************)
TimeValues == 0 .. (2 ^ (TimeBits - 1) - 1)

DecimalDigits == <<"0", "1", "2", "3", "4", "5", "6", "7", "8", "9">>

RECURSIVE to_string(_)
\* std::to_string of a value that is not negative.
to_string(n) ==
    IF n < 10 THEN <<DecimalDigits[n + 1]>>
    ELSE to_string(n \div 10) \o <<DecimalDigits[(n % 10) + 1]>>

DecimalValue(c) == CHOOSE d \in 0 .. 9 : DecimalDigits[d + 1] = c

RECURSIVE TextToInteger(_, _, _)
\* The 64-bit integer value SQLite gives a column text of digits.
TextToInteger(txt, p, acc) ==
    IF p > Len(txt) THEN acc
    ELSE TextToInteger(txt, p + 1, 10 * acc + DecimalValue(txt[p]))

\* sqlite3_column_int: the low ColumnIntBits bits of the value, signed.
sqlite3_column_int(txt) ==
    LET half == 2 ^ (ColumnIntBits - 1)
    IN  ((TextToInteger(txt, 1, 0) + half) % (2 * half)) - half

TimedTask(n, finished, added_time) ==
    [name |-> n, is_finished |-> finished, time_added |-> added_time]
TimedRow(n, f, txt) ==
    [task_name |-> n, task_finished |-> f, time_added |-> txt]

\* Tables a previous run can have left: one of its adds, finished or not.
TimedTables ==
    {<<>>} \cup {<<TimedRow(TextA, f, to_string(t))>> :
                    f \in {0, 1}, t \in TimeValues}

add_task_timed(task, now, open_ok, ts, rows, exists) ==
    LET pushed == Append(ts, TimedTask(task, FALSE, now))
    IN  IF open_ok /\ exists
        THEN [tasks |-> pushed,
              db |-> Append(rows, TimedRow(task, 0, to_string(now))),
              failed |-> FALSE]
        ELSE [tasks |-> pushed, db |-> rows, failed |-> TRUE]

RowsToTimedTasks(rows) ==
    [i \in DOMAIN rows |->
        TimedTask(rows[i].task_name, rows[i].task_finished # 0,
                  sqlite3_column_int(rows[i].time_added))]

load_tasks_from_database_timed(open_ok, ts, rows, exists) ==
    IF open_ok /\ exists
    THEN [tasks |-> RowsToTimedTasks(SelectSeq(rows, IsActiveRow)),
          failed |-> FALSE, leaked |-> FALSE]
    ELSE [tasks |-> ts, failed |-> TRUE, leaked |-> open_ok]

get_finished_tasks_timed(open_ok, rows, exists) ==
    IF open_ok /\ exists
    THEN [tasks |-> RowsToTimedTasks(SelectSeq(rows, IsFinishedRow)),
          failed |-> FALSE]
    ELSE [tasks |-> <<>>, failed |-> TRUE]

TimeInit ==
    /\ InitFor(DialogVariants, TimedTables)
    /\ table_exists

\* main before the loop, in the front end with the warning dialog.
TimedStartup ==
    /\ pc = "start"
    /\ \E o0, p0, o1, o2 \in BOOLEAN :
          LET schema == create_database_and_table_flag(
                            o0, p0, table_exists, should_show_warning_dialog)
              act == load_tasks_from_database_timed(o1, tasks, db, schema.exists)
              fin == get_finished_tasks_timed(o2, db, schema.exists)
          IN  /\ table_exists' = schema.exists
              /\ should_show_warning_dialog' = schema.flag
              /\ tasks' = act.tasks
              /\ finished_tasks' = fin.tasks
              /\ store_failed' = (act.failed \/ fin.failed)
              /\ connection_left_open' = (schema.leaked \/ act.leaked)
    /\ schema_ran' = TRUE
    /\ pc' = "running"
    /\ last_op' = "startup"
    /\ UNCHANGED <<variant, db, task_input>>

\* A frame in which the name a is submitted while std::time returns now.
TimedSubmit ==
    /\ pc = "running"
    /\ Len(tasks) < MaxTasks
    /\ Len(db) < MaxRows
    /\ \E now \in TimeValues, o1 \in BOOLEAN :
          LET r == add_task_timed(TextA, now, o1, tasks, db, table_exists)
          IN  /\ tasks' = r.tasks
              /\ db' = r.db
              /\ store_failed' = (store_failed \/ r.failed)
    /\ last_op' = "add_task"
    /\ UNCHANGED <<variant, pc, finished_tasks, table_exists, task_input,
                   should_show_warning_dialog, schema_ran,
                   connection_left_open>>

\* The program is started again: a new process on the same file.
Relaunch ==
    /\ pc = "exited"
    /\ pc' = "start"
    /\ tasks' = <<>>
    /\ finished_tasks' = <<>>
    /\ task_input' = <<>>
    /\ store_failed' = FALSE
    /\ last_op' = "none"
    /\ should_show_warning_dialog' = FALSE
    /\ schema_ran' = FALSE
    /\ connection_left_open' = FALSE
    /\ UNCHANGED <<variant, db, table_exists>>

TimeNext ==
    \/ TimedStartup
    \/ TimedSubmit
    \/ Exit
    \/ Relaunch

TimeSpec == TimeInit /\ [][TimeNext]_vars

(***************************************************************************)
(* Vocabulary of the properties.                                           *)
(***************************************************************************)
NoneChecked(ts) == \A i \in DOMAIN ts : ~ts[i].is_finished

StoredFinished(rows) == RowsToTasks(SelectSeq(rows, IsFinishedRow))

\* Names written with letters only: no character that SQL gives a meaning.
PlainNames == {TextA, TextB}
AllPlain == \A i \in DOMAIN tasks : tasks[i].name \in PlainNames

CountTasks(ts, n) == Cardinality({i \in DOMAIN ts : ts[i].name = n})
CountRows(rows, n, f) ==
    Cardinality({k \in DOMAIN rows :
                    rows[k].task_name = n /\ rows[k].task_finished = f})

NamesOf(ts) == {ts[i].name : i \in DOMAIN ts}
RowNames(rows) == {rows[k].task_name : k \in DOMAIN rows}

(***************************************************************************)
(* C1: when delete_tasks returns, no task of the active collection has     *)
(* is_finished = true and the finished collection equals the stored rows   *)
(* with task_finished = 1.  Stated for sessions in which no store call has *)
(* failed.  The index loop of the Direct3D12 front end skips the element   *)
(* that follows an erased one.                                             *)
(***************************************************************************)
C1_DeleteLeavesNoneChecked ==
    (last_op = "delete_tasks" /\ ~store_failed)
        => /\ NoneChecked(tasks)
           /\ finished_tasks = StoredFinished(db)

(***************************************************************************)
(* C2: with every store call succeeding, each task that delete_tasks       *)
(* removes from the active collection is afterwards in the finished        *)
(* collection and stored with task_finished = 1.  Stated for plain names.  *)
(* The UPDATE is keyed by name: an unchecked task of the same name that    *)
(* comes later in the vector sets the rows back to 0.                      *)
(***************************************************************************)
C2_RemovedTaskIsFinished ==
    [][ (last_op' = "delete_tasks" /\ ~store_failed' /\ AllPlain)
          => \A n \in NamesOf(tasks) :
                CountTasks(tasks', n) < CountTasks(tasks, n)
                   => /\ CountTasks(finished_tasks', n) > 0
                      /\ CountRows(db', n, 1) > 0 ]_vars

(***************************************************************************)
(* C3: a stored row with task_finished = 1 keeps that value until          *)
(* clear_finished_tasks deletes it.  Rows are only appended or deleted by  *)
(* the clear, so outside the clear a row keeps its position.  Stated for   *)
(* sessions in which no store call has failed.  The UPDATE of a new        *)
(* unchecked task of the same name sets the row back to 0.                 *)
(***************************************************************************)
C3_FinishedStaysFinished ==
    [][ (last_op' # "clear_finished_tasks" /\ ~store_failed')
          => \A k \in DOMAIN db :
                db[k].task_finished = 1
                   => k \in DOMAIN db' /\ db'[k] = db[k] ]_vars

(***************************************************************************)
(* C4: after a successful load at startup and with every store call        *)
(* succeeding, the names of the active collection are, as a multiset, the  *)
(* task_name values of the stored rows with task_finished = 0.  Stated for *)
(* plain names.                                                            *)
(***************************************************************************)
C4_ActiveMatchesStorage ==
    (pc = "running" /\ ~store_failed /\ AllPlain)
        => \A n \in NamesOf(tasks) \cup RowNames(db) :
              CountTasks(tasks, n) = CountRows(db, n, 0)

(***************************************************************************)
(* C5: after a successful load at startup and with every store call        *)
(* succeeding, the names of the finished collection are, as a multiset,    *)
(* the task_name values of the stored rows with task_finished = 1.  A text *)
(* that closes the literal of the INSERT stores a row with                 *)
(* task_finished = 1 that the finished collection does not hold.           *)
(***************************************************************************)
C5_FinishedMatchesStorage ==
    (pc = "running" /\ ~store_failed)
        => \A n \in NamesOf(finished_tasks) \cup RowNames(db) :
              CountTasks(finished_tasks, n) = CountRows(db, n, 1)

(***************************************************************************)
(* C6: add_task with a non-empty text makes the active collection one      *)
(* longer and appends exactly one row, with task_finished = 0, to the      *)
(* stored rows, which are otherwise unchanged.  Stated for calls that      *)
(* return without a failure of the store.                                  *)
(***************************************************************************)
C6_AddAppendsOneActiveRow ==
    [][ (last_op' = "add_task" /\ ~store_failed')
          => /\ Len(tasks') = Len(tasks) + 1
             /\ Len(db') = Len(db) + 1
             /\ SubSeq(db', 1, Len(db)) = db
             /\ db'[Len(db')].task_finished = 0 ]_vars

(***************************************************************************)
(* C7: after add_task(X), load_tasks_from_database yields a collection     *)
(* that holds a task named X with is_finished = false.  Stated for calls   *)
(* that return without a failure of the store.                             *)
(***************************************************************************)
C7_AddThenLoadRoundTrip ==
    (last_op = "add_task" /\ ~store_failed)
        => LET X == tasks[Len(tasks)].name
               reloaded == load_tasks_from_database(TRUE, tasks, db, table_exists).tasks
           IN  \E i \in DOMAIN reloaded : reloaded[i] = Task(X, FALSE)

(***************************************************************************)
(* C8: a submission of the empty text changes neither collection nor the   *)
(* stored rows, and no task with an empty name exists in the collections   *)
(* or in the stored rows.                                                  *)
(***************************************************************************)
NoEmptyName ==
    /\ \A i \in DOMAIN tasks : tasks[i].name # <<>>
    /\ \A i \in DOMAIN finished_tasks : finished_tasks[i].name # <<>>
    /\ \A k \in DOMAIN db : db[k].task_name # <<>>

C8_NoEmptyNameCreated ==
    [][ /\ task_input = <<>> /\ last_op' = "submit_empty"
            => UNCHANGED <<tasks, finished_tasks, db>>
        /\ NoEmptyName => NoEmptyName' ]_vars

(***************************************************************************)
(* C9 as stated: once the process has exited, every stored row carries the *)
(* flag the user last set for the task of that name.  Stated for plain     *)
(* names and sessions in which no store call has failed.                   *)
(***************************************************************************)
FlagValue(t) == IF t.is_finished THEN 1 ELSE 0

C9_ExitWritesFlagsBack ==
    (pc = "exited" /\ ~store_failed /\ AllPlain)
        => \A i \in DOMAIN tasks : \A k \in DOMAIN db :
              db[k].task_name = tasks[i].name
                 => db[k].task_finished = FlagValue(tasks[i])

(***************************************************************************)
(* C9 amended: a flag changed by the check box reaches the stored rows     *)
(* only through delete_tasks: the click leaves the stored rows unchanged   *)
(* and the end of the process writes nothing back, while a delete_tasks    *)
(* whose store calls succeed gives every row the flag of the last active   *)
(* task of its name.                                                       *)
(***************************************************************************)
LastOfName(ts, i) == \A j \in DOMAIN ts : ts[j].name = ts[i].name => j <= i

C9_ToggleAndExitLeaveStorage ==
    [][ /\ last_op' \in {"toggle", "exit"} => db' = db
        /\ (last_op' = "delete_tasks" /\ ~store_failed')
              => /\ DOMAIN db' = DOMAIN db
                 /\ \A i \in DOMAIN tasks : \A k \in DOMAIN db :
                       (LastOfName(tasks, i) /\ db[k].task_name = tasks[i].name)
                          => db'[k].task_finished = FlagValue(tasks[i]) ]_vars

\* The process has ended with a checked task whose stored row is still 0.
C9_Witness ==
    /\ pc = "exited"
    /\ ~store_failed
    /\ \E i \in DOMAIN tasks : \E k \in DOMAIN db :
          /\ db[k].task_name = tasks[i].name
          /\ tasks[i].is_finished
          /\ db[k].task_finished = 0

(***************************************************************************)
(* C10: a click on the check box of task i changes only the is_finished    *)
(* flag of that element: the other elements, the names, the order and the  *)
(* length of the active collection, the finished collection and the stored *)
(* rows stay as they were.                                                 *)
(***************************************************************************)
C10_ToggleChangesOneFlag ==
    [][ last_op' = "toggle"
          => /\ Len(tasks') = Len(tasks)
             /\ \E i \in DOMAIN tasks :
                   /\ tasks'[i].is_finished = ~tasks[i].is_finished
                   /\ tasks'[i].name = tasks[i].name
                   /\ \A j \in DOMAIN tasks \ {i} : tasks'[j] = tasks[j]
             /\ finished_tasks' = finished_tasks
             /\ db' = db ]_vars

\* A click has just been made in a list of two tasks with rows stored.
C10_Witness ==
    /\ last_op = "toggle"
    /\ Len(tasks) >= 2
    /\ tasks[1].is_finished # tasks[2].is_finished
    /\ db # <<>>

(***************************************************************************)
(* C11: storing the same target state twice in the flag of a task leaves   *)
(* the active collection as storing it once does, and the flag then has    *)
(* the target state.                                                       *)
(***************************************************************************)
C11_SetFinishedIdempotent ==
    \A i \in DOMAIN tasks : \A c \in BOOLEAN :
        LET once  == set_finished(tasks, i, c)
            twice == set_finished(once, i, c)
        IN  twice = once /\ twice[i].is_finished = c

\* A click has just checked a task that was unchecked.
C11_Witness ==
    /\ last_op = "toggle"
    /\ \E i \in DOMAIN tasks : tasks[i].is_finished

(***************************************************************************)
(* C12 as stated: when clear_finished_tasks has returned, the finished     *)
(* collection is empty and no stored row has task_finished = 1.            *)
(***************************************************************************)
NoFinishedRow(rows) == \A k \in DOMAIN rows : ~IsFinishedRow(rows[k])

C12_ClearEmptiesBoth ==
    last_op = "clear_finished_tasks"
        => finished_tasks = <<>> /\ NoFinishedRow(db)

(***************************************************************************)
(* C12 amended: when clear_finished_tasks has returned, the finished       *)
(* collection is empty; no stored row has task_finished = 1 when the store *)
(* could be opened and the table exists, and otherwise the stored rows are *)
(* as they were.                                                           *)
(***************************************************************************)
C12_ClearEmptiesOrLeavesRows ==
    [][ last_op' = "clear_finished_tasks"
          => /\ finished_tasks' = <<>>
             /\ NoFinishedRow(db') \/ db' = db
             /\ ~store_failed' => NoFinishedRow(db') ]_vars

\* The clear has run without a store failure on a table that keeps a row.
C12_Witness ==
    /\ last_op = "clear_finished_tasks"
    /\ ~store_failed
    /\ db # <<>>

(***************************************************************************)
(* C13: clear_finished_tasks leaves the active collection (elements, order *)
(* and flags) and every stored row with task_finished = 0 unchanged.       *)
(***************************************************************************)
C13_ClearLeavesActive ==
    [][ last_op' = "clear_finished_tasks"
          => /\ tasks' = tasks
             /\ SelectSeq(db', IsActiveRow) = SelectSeq(db, IsActiveRow) ]_vars

\* The clear has run while a checked task waits in the active collection
\* and a row with task_finished = 0 is stored.
C13_Witness ==
    /\ last_op = "clear_finished_tasks"
    /\ ~store_failed
    /\ \E i \in DOMAIN tasks : tasks[i].is_finished
    /\ \E k \in DOMAIN db : IsActiveRow(db[k])

(***************************************************************************)
(* C14: a stored row's task_finished goes from 0 to 1 only in a step of    *)
(* delete_tasks, and a row leaves the table only in a step of              *)
(* clear_finished_tasks; text input, add and toggle leave every stored row *)
(* in place and as it was, and delete_tasks removes no row.                *)
(***************************************************************************)
RowsKept(old, new) ==
    /\ Len(new) >= Len(old)
    /\ SubSeq(new, 1, Len(old)) = old

C14_RowChangesOnlyInTheirOperation ==
    [][ /\ Len(db') < Len(db) => last_op' = "clear_finished_tasks"
        /\ ( /\ Len(db') = Len(db)
             /\ \E k \in DOMAIN db :
                    IsActiveRow(db[k]) /\ IsFinishedRow(db'[k]) )
              => last_op' = "delete_tasks"
        /\ last_op' \in {"input", "toggle", "add_task", "submit_empty"}
              => RowsKept(db, db')
        /\ last_op' = "delete_tasks" => Len(db') = Len(db) ]_vars

(***************************************************************************)
(* C15: delete_tasks removes every task whose is_finished flag is true     *)
(* from the tasks vector and from the database (no stored row keeps the    *)
(* name of such a task), and finished_tasks is then the list of the stored *)
(* finished rows.                                                          *)
(***************************************************************************)
C15_DeleteRemovesFromVectorAndDatabase ==
    [][ (last_op' = "delete_tasks" /\ ~store_failed')
          => /\ NoneChecked(tasks')
             /\ \A i \in DOMAIN tasks :
                    tasks[i].is_finished
                        => tasks[i].name \notin RowNames(db')
             /\ finished_tasks' = StoredFinished(db') ]_vars

(***************************************************************************)
(* C16: the worked scenario, with a for "Buy milk", b for "Pay bill" and c *)
(* for "Call mom".  From the stored rows (a,0), (b,1) the start-up loads   *)
(* the active list [a] and the finished list [b]; adding c then gives the  *)
(* active list [a, c]; with a checked, delete_tasks leaves the active list *)
(* [c] and the finished list [a, b] in that order; clear_finished_tasks    *)
(* then leaves the finished list empty and no stored row with              *)
(* task_finished = 1.                                                      *)
(***************************************************************************)
ScenarioAfterAdd == ScenarioTable \o <<Row(TextC, 0)>>
ScenarioAfterDelete == <<Row(TextA, 1), Row(TextB, 1), Row(TextC, 0)>>

C16_Scenario ==
    [][ /\ ( /\ last_op' = "startup"
             /\ db = ScenarioTable
             /\ ~store_failed' )
            => /\ tasks' = <<Task(TextA, FALSE)>>
               /\ finished_tasks' = <<Task(TextB, TRUE)>>
        /\ ( /\ last_op' = "add_task"
             /\ task_input = TextC
             /\ tasks = <<Task(TextA, FALSE)>>
             /\ db = ScenarioTable
             /\ ~store_failed' )
            => tasks' = <<Task(TextA, FALSE), Task(TextC, FALSE)>>
        /\ ( /\ last_op' = "delete_tasks"
             /\ tasks = <<Task(TextA, TRUE), Task(TextC, FALSE)>>
             /\ db = ScenarioAfterAdd
             /\ ~store_failed' )
            => /\ tasks' = <<Task(TextC, FALSE)>>
               /\ finished_tasks' = <<Task(TextA, TRUE), Task(TextB, TRUE)>>
        /\ ( /\ last_op' = "clear_finished_tasks"
             /\ tasks = <<Task(TextC, FALSE)>>
             /\ finished_tasks = <<Task(TextA, TRUE), Task(TextB, TRUE)>>
             /\ db = ScenarioAfterDelete
             /\ ~store_failed' )
            => /\ finished_tasks' = <<>>
               /\ NoFinishedRow(db') ]_vars

\* The end of the scenario: c alone is active and stored.
C16_Witness ==
    /\ last_op = "clear_finished_tasks"
    /\ ~store_failed
    /\ tasks = <<Task(TextC, FALSE)>>
    /\ finished_tasks = <<>>
    /\ db = <<Row(TextC, 0)>>

(***************************************************************************)
(* C17: when the store cannot be opened, the table is missing or the       *)
(* INSERT statement does not compile, add_task with a non-empty text       *)
(* reports a failure only in its log, appends the task once to the active  *)
(* collection and leaves the stored rows as they were; a reload from       *)
(* storage then holds no more tasks of that name than active rows of that  *)
(* name were stored before.                                                *)
(***************************************************************************)
C17_FailedAddStaysInMemory ==
    \A t \in TextInputs \ {<<>>} : \A open_ok \in BOOLEAN :
        LET r      == add_task(t, open_ok, tasks, db, table_exists)
            reload == load_tasks_from_database(TRUE, r.tasks, r.db, TRUE).tasks
        IN  (~open_ok \/ ~table_exists \/ ExecInsert(InsertValues(t)).rows = <<>>)
                => /\ r.failed
                   /\ r.tasks = Append(tasks, Task(t, FALSE))
                   /\ r.db = db
                   /\ CountTasks(reload, t) = CountRows(db, t, 0)

\* An add has failed and has left a task whose name is not stored.
C17_Witness ==
    /\ last_op = "add_task"
    /\ store_failed
    /\ \E i \in DOMAIN tasks :
          /\ tasks[i].name \in {TextA, TextQuote}
          /\ tasks[i].name \notin RowNames(db)

(***************************************************************************)
(* C18: in the front end with the warning dialog, the schema setup before  *)
(* the loop leaves should_show_warning_dialog true exactly when its        *)
(* sqlite3_open fails, whatever becomes of the CREATE TABLE statement; no  *)
(* later step raises the flag, whichever store call fails in it, and only  *)
(* the OK button of the dialog lowers it.                                  *)
(***************************************************************************)
C18_FlagFollowsSchemaOpen ==
    [][ /\ pc = "start"
          => \A open_ok, prepare_ok \in BOOLEAN :
                create_database_and_table_flag(
                    open_ok, prepare_ok, table_exists,
                    should_show_warning_dialog).flag = ~open_ok
        /\ (~should_show_warning_dialog /\ should_show_warning_dialog')
              => last_op' = "startup"
        /\ (~table_exists /\ table_exists')
              => ~should_show_warning_dialog'
        /\ (should_show_warning_dialog /\ ~should_show_warning_dialog')
              => last_op' = "dismiss" ]_vars

\* The flag has stayed up over an add that failed after the setup.
C18_Witness ==
    /\ variant \in DialogVariants
    /\ last_op = "add_task"
    /\ store_failed
    /\ should_show_warning_dialog

C20_LoadReplacesActive ==
    \A open_ok \in BOOLEAN :
        LET r == load_tasks_from_database(open_ok, tasks, db, table_exists)
        IN  ~r.failed
              => /\ Len(r.tasks) =
                        Cardinality({k \in DOMAIN db : db[k].task_finished = 0})
                 /\ \A n \in NamesOf(r.tasks) \cup RowNames(db) :
                        CountTasks(r.tasks, n) = CountRows(db, n, 0)
                 /\ NoneChecked(r.tasks)
                 /\ r.tasks =
                        load_tasks_from_database(open_ok, <<>>, db, table_exists).tasks

\* The start-up has loaded a task from a table that also stores a finished
\* row.
C20_Witness ==
    /\ last_op = "startup"
    /\ ~store_failed
    /\ tasks # <<>>
    /\ \E k \in DOMAIN db : IsFinishedRow(db[k])

(***************************************************************************)
(* C21: once an operation on the tasks table has run (the start-up load is *)
(* the first), create_database_and_table has been called at least once.    *)
(***************************************************************************)
C21_SchemaBeforeTableUse ==
    pc # "start" => schema_ran

(***************************************************************************)
(* C22: between operations no store connection is open: every persistence  *)
(* call has closed the connection it opened before it returned.            *)
(***************************************************************************)
C22_NoConnectionLeftOpen ==
    ~connection_left_open

(***************************************************************************)
(* C23: when the store cannot be opened or the SELECT cannot be prepared,  *)
(* get_finished_tasks returns an empty vector; otherwise it returns, for   *)
(* every name, as many tasks as there are stored rows of that name with    *)
(* task_finished = 1, each with is_finished = true, and nothing else.      *)
(***************************************************************************)
C23_FinishedOrEmpty ==
    \A open_ok \in BOOLEAN :
        LET r == get_finished_tasks(open_ok, db, table_exists)
        IN  IF open_ok /\ table_exists
            THEN /\ ~r.failed
                 /\ Len(r.tasks) =
                        Cardinality({k \in DOMAIN db : db[k].task_finished = 1})
                 /\ \A n \in NamesOf(r.tasks) \cup RowNames(db) :
                        CountTasks(r.tasks, n) = CountRows(db, n, 1)
                 /\ \A i \in DOMAIN r.tasks : r.tasks[i].is_finished
            ELSE r.failed /\ r.tasks = <<>>

\* A delete whose SELECT failed has left the finished collection empty
\* although a finished row is stored.
C23_Witness ==
    /\ last_op = "delete_tasks"
    /\ store_failed
    /\ finished_tasks = <<>>
    /\ \E k \in DOMAIN db : IsFinishedRow(db[k])

(***************************************************************************)
(* C24: create_database_and_table is idempotent and keeps the content: a   *)
(* second call after a call with the same outcome changes nothing; a table *)
(* that exists still exists after any call; a call that can open the store *)
(* leaves a table; a frame that runs nothing else on the store leaves the  *)
(* stored rows as they were; and a table that a frame has created is empty *)
(* unless add_task has inserted into it in the same frame.                 *)
(***************************************************************************)
C24_SchemaSetupKeepsTable ==
    [][ /\ \A open_ok \in BOOLEAN :
            LET once == create_database_and_table(open_ok, table_exists)
            IN  /\ create_database_and_table(open_ok, once) = once
                /\ table_exists => once
                /\ open_ok => once
        /\ table_exists => table_exists'
        /\ last_op' \in {"input", "toggle", "submit_empty"} => db' = db
        /\ (~table_exists /\ table_exists' /\ last_op' # "add_task")
              => db' = <<>> ]_vars

\* A frame has run the schema setup again over a table that holds rows.
C24_Witness ==
    /\ variant \in Variants
    /\ last_op = "input"
    /\ schema_ran
    /\ table_exists
    /\ db # <<>>

(***************************************************************************)
(* C25: clear_finished_tasks writes "Finished tasks cleared successfully." *)
(* only when the store was opened, the DELETE was prepared and             *)
(* sqlite3_step on it succeeded.                                           *)
(***************************************************************************)
C25_MessageOnlyAfterSuccess ==
    pc = "running"
        => \A open_ok, step_ok \in BOOLEAN :
              LET r == clear_finished_tasks(open_ok, step_ok, db, table_exists)
              IN  r.message => (open_ok /\ table_exists /\ step_ok /\ ~r.failed)

(***************************************************************************)
(* C26: on every active collection the index loop of the Direct3D12        *)
(* delete_tasks and the iterator loop of the GLFW delete_tasks leave the   *)
(* same elements in the same order.                                        *)
(***************************************************************************)
C26_EraseLoopsAgree ==
    EraseByIndex(tasks, 1) = EraseByIterator(tasks, 1)

(***************************************************************************)
(* C27: with the iterator loop, a second delete_tasks right after the      *)
(* first, both with every store call succeeding, leaves the active         *)
(* collection, the finished collection and the stored rows as the first    *)
(* left them.                                                              *)
(***************************************************************************)
C27_DeleteTwiceAsOnce ==
    (pc = "running" /\ table_exists /\ variant = "glfw")
        => LET once  == delete_tasks(variant, TRUE, TRUE, tasks, db, TRUE)
               twice == delete_tasks(variant, TRUE, TRUE,
                                     once.tasks, once.db, TRUE)
           IN  /\ twice.tasks = once.tasks
               /\ twice.finished_tasks = once.finished_tasks
               /\ twice.db = once.db

(***************************************************************************)
(* C28: add_task puts the new task behind the tasks the active collection  *)
(* holds and leaves those as they were and where they were; what           *)
(* delete_tasks leaves in the active collection are tasks it held before,  *)
(* in the order they had.                                                  *)
(***************************************************************************)
IsSubSeq(r, ts) ==
    \E f \in [DOMAIN r -> DOMAIN ts] :
        /\ \A i, j \in DOMAIN r : i < j => f[i] < f[j]
        /\ \A i \in DOMAIN r : r[i] = ts[f[i]]

C28_OrderPreserved ==
    [][ /\ last_op' = "add_task"
          => /\ Len(tasks') = Len(tasks) + 1
             /\ SubSeq(tasks', 1, Len(tasks)) = tasks
             /\ tasks'[Len(tasks')] = Task(task_input, FALSE)
        /\ last_op' = "delete_tasks" => IsSubSeq(tasks', tasks) ]_vars

\* A delete has left a and c, in that order, of the three tasks whose rows
\* are stored.
C28_Witness ==
    /\ last_op = "delete_tasks"
    /\ tasks = <<Task(TextA, FALSE), Task(TextC, FALSE)>>
    /\ Len(db) = 3
    /\ RowNames(db) = {TextA, TextC}

(***************************************************************************)
(* C29: the frame that adds a task leaves the input buffer empty, and a    *)
(* submit frame that finds the buffer empty adds nothing: with the trigger *)
(* held and nothing typed, the frame after an add leaves the active        *)
(* collection and the stored rows as they are.                             *)
(***************************************************************************)
C29_OneAddPerText ==
    [][ /\ last_op' = "add_task" => task_input' = <<>>
        /\ (task_input = <<>> /\ last_op' \in {"add_task", "submit_empty"})
              => /\ last_op' = "submit_empty"
                 /\ tasks' = tasks
                 /\ db' = db
                 /\ task_input' = <<>> ]_vars

\* The trigger was active again after c had been added.
C29_Witness ==
    /\ last_op = "submit_empty"
    /\ task_input = <<>>
    /\ \E i \in DOMAIN tasks : tasks[i].name = TextC

(***************************************************************************)
(* C30: after a start-up whose store calls succeeded, every task of the    *)
(* active and of the finished collection has the time_added that add_task  *)
(* wrote into its row: when the row holds std::to_string(t), the task      *)
(* holds t.                                                                *)
(***************************************************************************)
TimesReadBack(ts, rows) ==
    /\ Len(ts) = Len(rows)
    /\ \A i \in DOMAIN ts : \A t \in TimeValues :
          rows[i].time_added = to_string(t) => ts[i].time_added = t

C30_TimeAddedRoundTrip ==
    (last_op = "startup" /\ ~store_failed)
        => /\ TimesReadBack(tasks, SelectSeq(db, IsActiveRow))
           /\ TimesReadBack(finished_tasks, SelectSeq(db, IsFinishedRow))

====
